---------------------------- MODULE Spec2Model ----------------------------
(***************************************************************************)
(* SecuFeed (src/app.py): a Flask application over two SQLAlchemy tables,  *)
(* Interest and Bookmark, an arXiv paper source and three RSS feeds.       *)
(*                                                                         *)
(* Values of request.form.get(...) are modelled as options: None is the    *)
(* empty tuple and a present string s is the one-element tuple <<s>>.      *)
(* Strings that the code orders (published_date) are sequences of          *)
(* character codes, compared the way Python compares str.                  *)
(***************************************************************************)
EXTENDS Integers, Sequences, FiniteSets, TLC

VARIABLES
    interests,   \* the Interest table: a set of rows [id, keyword, interest_type]
    bookmarks,   \* the Bookmark table: the rows in rowid order
    last,        \* the request handled last: its inputs, locals and response
    reqs         \* add_interest requests in flight (overlapping requests)

vars == <<interests, bookmarks, last, reqs>>

-----------------------------------------------------------------------------
(* Bounds of the model *)

\* Largest surrogate id the Interest table hands out
MaxId == 3

\* Pagination page size
PER_PAGE == 10

-----------------------------------------------------------------------------
(* Python values *)

None == <<>>

\* bool(v) of a form value: None and the empty string are falsy
Truthy(v) == v /= None /\ v /= <<"">>

Max(S) == CHOOSE x \in S : \A y \in S : y <= x
Min(S) == CHOOSE x \in S : \A y \in S : x <= y

NoRequest == [op |-> "none"]

-----------------------------------------------------------------------------
(* The Interest table and its handlers *)

Keywords == {"cryptography", "alice"}
InterestTypes == {"topic", "author"}

\* what request.form.get('keyword') / ('interest_type') can be
KeywordInputs == {None, <<"">>} \cup {<<k>> : k \in Keywords}
TypeInputs == {None, <<"">>} \cup {<<t>> : t \in InterestTypes}
AddForms == [keyword : KeywordInputs, interest_type : TypeInputs]

\* id = db.Column(db.Integer, primary_key=True): SQLite gives max(rowid)+1
NextRowId(table) == IF table = {} THEN 1 ELSE Max({r.id : r \in table}) + 1

\* Interest.query.filter_by(keyword=..., interest_type=...)
InterestFilterBy(table, keyword, interest_type) ==
    {r \in table : r.keyword = keyword /\ r.interest_type = interest_type}

\* the `if not existing:` branch: Interest(...), db.session.add, db.session.commit
InsertInterest(table, keyword, interest_type) ==
    table \cup {[id |-> NextRowId(table), keyword |-> keyword,
                 interest_type |-> interest_type]}

\* faulty variant: the existence check is dropped
AddInterestNoCheck(table, form) ==
    IF Truthy(form.keyword) /\ Truthy(form.interest_type)
    THEN InsertInterest(table, form.keyword[1], form.interest_type[1])
    ELSE table

\* the Interest table after add_interest() has handled `form`
AddInterestTable(table, form) ==
    LET new_keyword == form.keyword
        new_type == form.interest_type
    IN  IF Truthy(new_keyword) /\ Truthy(new_type)
        THEN LET existing == InterestFilterBy(table, new_keyword[1], new_type[1])
             IN  IF existing = {}
                 THEN InsertInterest(table, new_keyword[1], new_type[1])
                 ELSE table
        ELSE table

\* POST /add
add_interest ==
    \E form \in AddForms :
        LET after == AddInterestTable(interests, form) IN
        /\ \A r \in after : r.id <= MaxId
        /\ interests' = after
        /\ last' = [op |-> "add_interest", form |-> form, before |-> interests,
                    status |-> 302]
        /\ UNCHANGED <<bookmarks, reqs>>

\* GET /delete/<int:interest_id>
delete_interest ==
    \E interest_id \in 0..MaxId :
        LET found == {r \in interests : r.id = interest_id} IN
        /\ interests' = interests \ found
        /\ last' = [op |-> "delete_interest", form |-> [interest_id |-> interest_id],
                    before |-> interests,
                    status |-> IF found = {} THEN 404 ELSE 302]
        /\ UNCHANGED <<bookmarks, reqs>>

Init ==
    /\ interests = {}
    /\ bookmarks = <<>>
    /\ last = NoRequest
    /\ reqs = <<>>

Next == add_interest \/ delete_interest

\* Requests to the Interest table handled one after another
Spec == Init /\ [][Next]_vars

-----------------------------------------------------------------------------
(* Claims about the Interest table *)

PairsOf(table) == {<<r.keyword, r.interest_type>> : r \in table}

NoDuplicatePairs(table) ==
    \A r1, r2 \in table :
        (r1.keyword = r2.keyword /\ r1.interest_type = r2.interest_type) => r1 = r2

\* C6: an add_interest request with an empty or absent keyword or
\* interest_type, or with a pair that is already stored, leaves the Interest
\* table unchanged; after an add of a valid pair exactly one row holds that
\* pair; and after any sequence of adds and deletes no two rows share a pair.
C6_AddInterestIdempotent ==
    /\ NoDuplicatePairs(interests)
    /\ last.op = "add_interest" =>
        LET f == last.form IN
        IF Truthy(f.keyword) /\ Truthy(f.interest_type)
        THEN /\ Cardinality(InterestFilterBy(interests, f.keyword[1],
                                              f.interest_type[1])) = 1
             /\ <<f.keyword[1], f.interest_type[1]>> \in PairsOf(last.before)
                    => interests = last.before
        ELSE interests = last.before

\* a valid pair that is already stored has been added again, next to another row
C6_Witness ==
    /\ last.op = "add_interest"
    /\ Truthy(last.form.keyword) /\ Truthy(last.form.interest_type)
    /\ <<last.form.keyword[1], last.form.interest_type[1]>> \in PairsOf(last.before)
    /\ Cardinality(interests) >= 2

-----------------------------------------------------------------------------
(* The Bookmark table and toggle_bookmark *)

EntryIds == {1, 2}

SnapshotFields == {"title", "summary", "authors", "pdf_link", "published_date"}

\* what the hidden form fields of POST /toggle_bookmark can be; a field the
\* form omits is None
ToggleForms ==
    [entry_id : {None} \cup {<<e>> : e \in EntryIds},
     title : {None, <<"">>, <<"T">>},
     summary : {None, <<"s">>},
     authors : {None, <<"a">>},
     pdf_link : {None, <<"p">>},
     published_date : {None, <<"2024-01-03">>}]

\* Bookmark.query.filter_by(entry_id=entry_id): the positions of the matching
\* rows (no stored entry_id is NULL, so None matches nothing)
BookmarkFilterBy(table, entry_id) ==
    {i \in DOMAIN table : table[i].entry_id = entry_id}

\* the columns of Bookmark: every column nullable=False, entry_id unique=True
BookmarkIntegrityOk(table, row) ==
    /\ \A c \in DOMAIN row : row[c] /= None
    /\ BookmarkFilterBy(table, row.entry_id) = {}

\* db.session.delete(row i); db.session.commit()
DeleteRow(table, i) ==
    SubSeq(table, 1, i - 1) \o SubSeq(table, i + 1, Len(table))

\* faulty variant: no lookup of an existing bookmark and no unique constraint
ToggleBookmarkAlwaysInsert(table, form) ==
    IF \A c \in DOMAIN form : form[c] /= None
    THEN [table |-> Append(table, form), status |-> 302]
    ELSE [table |-> table, status |-> 500]

\* the Bookmark table and the response status after toggle_bookmark() has
\* handled `form`; an IntegrityError at commit is an unhandled exception (500)
ToggleBookmarkResult(table, form) ==
    LET entry_id == form.entry_id
        existing_bookmark == BookmarkFilterBy(table, entry_id)
    IN  IF existing_bookmark /= {}
        THEN [table |-> DeleteRow(table, Min(existing_bookmark)), status |-> 302]
        ELSE LET new_bookmark == form IN
             IF BookmarkIntegrityOk(table, new_bookmark)
             THEN [table |-> Append(table, new_bookmark), status |-> 302]
             ELSE [table |-> table, status |-> 500]

\* POST /toggle_bookmark
toggle_bookmark ==
    \E form \in ToggleForms :
        LET r == ToggleBookmarkResult(bookmarks, form) IN
        /\ bookmarks' = r.table
        /\ last' = [op |-> "toggle_bookmark", form |-> form, before |-> bookmarks,
                    status |-> r.status]
        /\ UNCHANGED <<interests, reqs>>

NextBookmark == toggle_bookmark

\* Requests to the Bookmark table handled one after another
SpecBookmark == Init /\ [][NextBookmark]_vars

-----------------------------------------------------------------------------
(* Claims about the Bookmark table *)

BookmarkedIds(table) == {table[i].entry_id : i \in DOMAIN table}

\* C3: a toggle of an entry_id that is not bookmarked raises the Bookmark
\* count by exactly 1, a toggle of a bookmarked one lowers it by exactly 1,
\* and a second toggle with the same form input restores the set of
\* bookmarked entry_ids and the count that held before the first.
C3_ToggleInvolution ==
    [][(last'.op = "toggle_bookmark" /\ last'.form.entry_id /= None) =>
        /\ IF last'.form.entry_id \in BookmarkedIds(bookmarks)
           THEN Len(bookmarks') = Len(bookmarks) - 1
           ELSE Len(bookmarks') = Len(bookmarks) + 1
        /\ (last.op = "toggle_bookmark" /\ last.form = last'.form) =>
              /\ BookmarkedIds(bookmarks') = BookmarkedIds(last.before)
              /\ Len(bookmarks') = Len(last.before)]_vars

\* C7: at most one Bookmark row exists per entry_id.
C7_OneBookmarkPerEntry ==
    \A i, j \in DOMAIN bookmarks :
        bookmarks[i].entry_id = bookmarks[j].entry_id => i = j

\* a second entry_id has been bookmarked next to a stored bookmark, after a
\* bookmark of that same entry_id was removed earlier
C7_Witness ==
    /\ last.op = "toggle_bookmark" /\ last.status = 302
    /\ Len(bookmarks) = 2 /\ Len(last.before) = 1
    /\ bookmarks[1].entry_id = <<2>> /\ bookmarks[2].entry_id = <<1>>
    /\ bookmarks[2].title = <<"">>

\* C9: a toggle of an entry_id that is not bookmarked, with one or more
\* snapshot fields omitted from the form, surfaces no error and stores the
\* Bookmark with the values the form gave.
C9_MissingFieldsStored ==
    (/\ last.op = "toggle_bookmark"
     /\ last.form.entry_id /= None
     /\ last.form.entry_id \notin BookmarkedIds(last.before)
     /\ \E c \in SnapshotFields : last.form[c] = None)
    => /\ last.status /= 500
       /\ \E i \in DOMAIN bookmarks : bookmarks[i] = last.form

-----------------------------------------------------------------------------
(* Strings the code orders: sequences of character codes *)

\* Python's a < b on str: the first differing character decides, a proper
\* prefix is smaller
StrLess(a, b) ==
    \E k \in 0..Len(a) :
        /\ k <= Len(b)
        /\ \A i \in 1..k : a[i] = b[i]
        /\ \/ (k = Len(a) /\ k < Len(b))
           \/ (k < Len(a) /\ k < Len(b) /\ a[k + 1] < b[k + 1])

Digit(n) == 48 + (n % 10)

\* result.published.strftime("%Y-%m-%d")
Strftime(date) ==
    <<Digit(date.y \div 1000), Digit(date.y \div 100), Digit(date.y \div 10),
      Digit(date.y), 45, Digit(date.m \div 10), Digit(date.m), 45,
      Digit(date.d \div 10), Digit(date.d)>>

-----------------------------------------------------------------------------
(* The paper source and search_for_papers *)

PublishedDates ==
    <<[y |-> 2024, m |-> 1, d |-> 3], [y |-> 2023, m |-> 12, d |-> 31],
      [y |-> 2024, m |-> 1, d |-> 12]>>

\* an arxiv.Result
Result(entry_id, published) ==
    [entry_id |-> entry_id, title |-> "t", summary |-> "s",
     authors |-> <<[name |-> "a"]>>, published |-> published, pdf_url |-> "p"]

\* the results a query can yield: short sequences over three results ...
ResultCatalog ==
    {Result(1, PublishedDates[1]), Result(1, PublishedDates[2]),
     Result(2, PublishedDates[3])}

\* Longest freely chosen result sequence of one query
MaxResults == 2

\* Longest run of consecutive entry_ids one query yields
MaxLen == 11

\* Largest page number requested
MaxPage == 4

RECURSIVE SeqsUpTo(_, _)
SeqsUpTo(S, n) ==
    IF n = 0 THEN {<<>>}
    ELSE LET shorter == SeqsUpTo(S, n - 1) IN
         shorter \cup {Append(q, x) : q \in shorter, x \in S}

\* ... and runs of consecutive entry_ids long enough to fill pages, the
\* second run overlapping the first in an entry_id with another date
ResultRun(first, len) ==
    [i \in 1..len |->
        Result(first + i - 1, PublishedDates[((2 * first + i) % 3) + 1])]

ResultRuns ==
    {ResultRun(first, len) :
        first \in {1, PER_PAGE - 3, PER_PAGE + 1}, len \in (PER_PAGE - 1)..MaxLen}

\* what search.results() does for one query: it yields `results` and then
\* either ends or raises
SourceOutcomes ==
    {[results |-> r, raises |-> FALSE] : r \in SeqsUpTo(ResultCatalog, MaxResults) \cup ResultRuns}
    \cup {[results |-> r, raises |-> TRUE] : r \in {<<>>, <<Result(2, PublishedDates[3])>>}}

\* the body of the for loop of search_for_papers
PaperInfo(result, keyword) ==
    [entry_id |-> result.entry_id,
     title |-> result.title,
     summary |-> result.summary,
     authors |-> [i \in DOMAIN result.authors |-> result.authors[i].name],
     published_date |-> Strftime(result.published),
     pdf_link |-> result.pdf_url,
     topic |-> keyword]

\* faulty variant: the except branch returns what was collected before the failure
SearchForPapersPartial(keyword, search_type, outcome) ==
    [i \in DOMAIN outcome.results |-> PaperInfo(outcome.results[i], keyword)]

\* search_for_papers(keyword, search_type): found_papers, or [] when the
\* source raises
search_for_papers(keyword, search_type, outcome) ==
    IF outcome.raises
    THEN <<>>
    ELSE [i \in DOMAIN outcome.results |-> PaperInfo(outcome.results[i], keyword)]

-----------------------------------------------------------------------------
(* home(): fetch, merge, dedup, sort, paginate *)

\* Interest.query.all(): the rows as SQLite scans them, by rowid
RECURSIVE QueryAll(_)
QueryAll(table) ==
    IF table = {} THEN <<>>
    ELSE LET first == CHOOSE r \in table : \A q \in table : r.id <= q.id
         IN  <<first>> \o QueryAll(table \ {first})

\* all_papers after the loop over interests: all_papers.extend(papers)
RECURSIVE ExtendAll(_, _)
ExtendAll(fetched, n) ==
    IF n = 0 THEN <<>> ELSE ExtendAll(fetched, n - 1) \o fetched[n]

\* faulty variant: the seen_ids test is dropped
DedupKeepAll(all_papers, n) == SubSeq(all_papers, 1, n)

\* faulty variant: a later occurrence replaces the one kept
RECURSIVE DedupKeepLast(_, _)
DedupKeepLast(all_papers, n) ==
    IF n = 0 THEN <<>>
    ELSE LET paper == all_papers[n]
             rest == DedupKeepLast(all_papers, n - 1)
         IN  SelectSeq(rest, LAMBDA p : p.entry_id /= paper.entry_id) \o <<paper>>

\* unique_papers after the first n papers of all_papers have been looked at;
\* seen_ids is the set of entry_ids of unique_papers
RECURSIVE Dedup(_, _)
Dedup(all_papers, n) ==
    IF n = 0 THEN <<>>
    ELSE LET unique_papers == Dedup(all_papers, n - 1)
             seen_ids == {unique_papers[i].entry_id : i \in DOMAIN unique_papers}
             paper == all_papers[n]
         IN  IF paper.entry_id \notin seen_ids
             THEN Append(unique_papers, paper)
             ELSE unique_papers

\* where list.sort(key=published_date, reverse=True) puts x among the items
\* sorted so far: behind every item whose key is >= its own (the sort is stable)
InsertDesc(sorted, x) ==
    LET smaller == {i \in DOMAIN sorted :
                        StrLess(sorted[i].published_date, x.published_date)}
        at == IF smaller = {} THEN Len(sorted) + 1 ELSE Min(smaller)
    IN  SubSeq(sorted, 1, at - 1) \o <<x>> \o SubSeq(sorted, at, Len(sorted))

RECURSIVE SortPrefix(_, _)
SortPrefix(items, n) ==
    IF n = 0 THEN <<>> ELSE InsertDesc(SortPrefix(items, n - 1), items[n])

\* faulty variant: reverse=True is missing
SortByDateAsc(items) ==
    LET d == SortPrefix(items, Len(items)) IN
    [i \in DOMAIN d |-> d[Len(d) + 1 - i]]

\* items.sort(key=lambda x: x['published_date'], reverse=True)
SortByDateDesc(items) == SortPrefix(items, Len(items))

\* faulty variant: the slice starts one item late
SliceOffByOne(items, start, end) ==
    SubSeq(items, start + 2, IF end < Len(items) THEN end ELSE Len(items))

\* items[start:end] of a Python list: negative indices count from the end,
\* and both are clamped to the list
Slice(items, start, end) ==
    LET n == Len(items)
        clamp(i) == IF i < 0 THEN (IF i + n < 0 THEN 0 ELSE i + n)
                    ELSE (IF i > n THEN n ELSE i)
    IN  SubSeq(items, clamp(start) + 1, clamp(end))

\* faulty variant: the partial last page is not counted
TotalPagesFloor(n) == n \div PER_PAGE

\* (len(items) // PER_PAGE) + (len(items) % PER_PAGE > 0)
TotalPages(n) == (n \div PER_PAGE) + (IF n % PER_PAGE > 0 THEN 1 ELSE 0)

Pages == 0..MaxPage

\* GET / and GET /page/<int:page>
home ==
    LET rows == QueryAll(interests) IN
    \E outcomes \in [DOMAIN rows -> SourceOutcomes] :
        LET fetched == [i \in DOMAIN rows |->
                            search_for_papers(rows[i].keyword, rows[i].interest_type,
                                              outcomes[i])]
            all_papers == ExtendAll(fetched, Len(rows))
            unique_papers == SortByDateDesc(Dedup(all_papers, Len(all_papers)))
            bookmarked_ids == {bookmarks[i].entry_id : i \in DOMAIN bookmarks}
            total_pages == TotalPages(Len(unique_papers))
        IN  \E page \in Pages :
            LET start == (page - 1) * PER_PAGE
                end == start + PER_PAGE
                paginated_papers == Slice(unique_papers, start, end)
            IN  /\ last' = [op |-> "home", page |-> page, interests |-> rows,
                            outcomes |-> outcomes,
                            calls |-> [i \in DOMAIN rows |->
                                          [keyword |-> rows[i].keyword,
                                           search_type |-> rows[i].interest_type]],
                            all_papers |-> all_papers,
                            items |-> unique_papers,
                            page_items |-> paginated_papers,
                            total_pages |-> total_pages,
                            bookmarked_ids |-> bookmarked_ids,
                            status |-> 200]
                /\ UNCHANGED <<interests, bookmarks, reqs>>

-----------------------------------------------------------------------------
(* news(): fetch_rss_feeds, sort, paginate *)

Feeds == <<"The Hacker News", "Dark Reading", "Security Week">>

\* published strings as feeds give them: "Mon", "Fri", "2024"
PubMon == <<77, 111, 110>>
PubFri == <<70, 114, 105>>
Pub2024 == <<50, 48, 50, 52>>
\* the literal 'N/A'
NotAvailable == <<78, 47, 65>>

\* a feedparser entry; a key the feed does not give is None
Entry(id, title, summary, published) ==
    [id |-> id, link |-> <<"l">>, title |-> title, summary |-> summary,
     published |-> published]

EntryKinds ==
    {Entry(<<"i">>, <<"t">>, <<"s">>, <<PubMon>>),
     Entry(None, <<"t">>, None, None),
     Entry(<<"i">>, <<"t">>, <<"s">>, <<Pub2024>>),
     Entry(<<"i">>, None, <<"s">>, <<PubFri>>)}

EntryRun(len) ==
    [i \in 1..len |->
        Entry(<<"i">>, <<"t">>, <<"s">>,
              CASE i % 3 = 0 -> <<PubMon>> [] i % 3 = 1 -> None [] OTHER -> <<PubFri>>)]

\* feed.entries of one feedparser.parse(feed_url): empty when the feed cannot
\* be read, one entry of any kind, or a run longer than the 10 entries kept
FeedEntries ==
    SeqsUpTo(EntryKinds, 1) \cup {EntryRun(len) : len \in (PER_PAGE - 1)..MaxLen}

\* the article dict built for one entry
Article(entry, source_name) ==
    [id |-> IF entry.id /= None THEN entry.id[1] ELSE entry.link[1],
     title |-> entry.title[1],
     summary |-> IF entry.summary /= None THEN entry.summary[1]
                 ELSE "No summary available.",
     link |-> entry.link[1],
     published_date |-> IF entry.published /= None THEN entry.published[1]
                        ELSE NotAvailable,
     source |-> source_name,
     type |-> "news"]

RECURSIVE ArticlesOfFeeds(_, _)
ArticlesOfFeeds(parsed, n) ==
    IF n = 0 THEN <<>>
    ELSE LET kept == Slice(parsed[n], 0, 10) IN
         ArticlesOfFeeds(parsed, n - 1)
            \o [i \in DOMAIN kept |-> Article(kept[i], Feeds[n])]

\* fetch_rss_feeds(): entry.title and entry.link raise AttributeError when the
\* entry lacks the key, and nothing catches it
fetch_rss_feeds(parsed) ==
    IF \E n \in DOMAIN parsed : \E i \in DOMAIN Slice(parsed[n], 0, 10) :
            parsed[n][i].title = None \/ parsed[n][i].link = None
    THEN [raised |-> TRUE, all_articles |-> <<>>]
    ELSE [raised |-> FALSE, all_articles |-> ArticlesOfFeeds(parsed, Len(parsed))]

\* GET /news and GET /news/page/<int:page>
news ==
    \E parsed \in [DOMAIN Feeds -> FeedEntries] :
        LET fetched == fetch_rss_feeds(parsed)
            news_articles == SortByDateDesc(fetched.all_articles)
            total_pages == TotalPages(Len(news_articles))
        IN  \E page \in Pages :
            LET start == (page - 1) * PER_PAGE
                end == start + PER_PAGE
                paginated_articles == Slice(news_articles, start, end)
            IN  /\ last' = IF fetched.raised
                           THEN [op |-> "news", page |-> page, parsed |-> parsed,
                                 status |-> 500]
                           ELSE [op |-> "news", page |-> page, parsed |-> parsed,
                                 items |-> news_articles,
                                 page_items |-> paginated_articles,
                                 total_pages |-> total_pages,
                                 status |-> 200]
                /\ UNCHANGED <<interests, bookmarks, reqs>>

\* Interest tables that add_interest builds from the empty table
SeedInterests ==
    LET crypto == AddInterestTable({}, [keyword |-> <<"cryptography">>,
                                        interest_type |-> <<"topic">>])
        alice == AddInterestTable({}, [keyword |-> <<"alice">>,
                                       interest_type |-> <<"topic">>])
    IN  {{}, crypto,
         AddInterestTable(crypto, [keyword |-> <<"alice">>,
                                   interest_type |-> <<"author">>]),
         AddInterestTable(alice, [keyword |-> <<"alice">>,
                                  interest_type |-> <<"author">>])}

\* Bookmark tables that toggle_bookmark builds from the empty table
SeedBookmarks ==
    {<<>>,
     ToggleBookmarkResult(<<>>, [entry_id |-> <<1>>, title |-> <<"T">>,
                                 summary |-> <<"s">>, authors |-> <<"a">>,
                                 pdf_link |-> <<"p">>,
                                 published_date |-> <<"2024-01-03">>]).table}

\* the stored states the views are requested in
SeedStores ==
    {<<t, b>> \in SeedInterests \X SeedBookmarks :
        (Cardinality(t) = 1) = (b /= <<>>)}

InitFeed ==
    /\ \E store \in SeedStores : interests = store[1] /\ bookmarks = store[2]
    /\ last = NoRequest
    /\ reqs = <<>>

\* home() and news() write to no table, so a request leaves the stored state
\* as it found it: each view is requested once in every seed state
GetHome == last = NoRequest /\ home
GetNews == last = NoRequest /\ news

NextFeed == GetHome \/ GetNews

\* The read-only views over stored interests and bookmarks
SpecFeed == InitFeed /\ [][NextFeed]_vars

-----------------------------------------------------------------------------
(* Claims about home() and news() *)

HomeDone == last.op = "home" /\ last.status = 200
NewsDone == last.op = "news" /\ last.status = 200

\* the positions of all_papers that hold entry_id e
Occurrences(e) == {i \in DOMAIN last.all_papers : last.all_papers[i].entry_id = e}

\* C1: the merged list home() builds holds no two records with the same
\* entry_id.
C1_MergedIdsDistinct ==
    HomeDone =>
        \A i, j \in DOMAIN last.items :
            last.items[i].entry_id = last.items[j].entry_id => i = j

\* two interests returned the same entry_id, one of them twice
C1_Witness ==
    /\ HomeDone
    /\ Len(last.interests) = 2
    /\ \E e \in {1, 2} : Cardinality(Occurrences(e)) = 3
    /\ Len(last.items) = 2

\* the interests of the request whose fetch returned entry_id e
Returning(e) ==
    {i \in DOMAIN last.interests :
        /\ ~last.outcomes[i].raises
        /\ \E k \in DOMAIN last.outcomes[i].results :
                last.outcomes[i].results[k].entry_id = e}

\* C2: for every entry_id in the concatenation of the per-interest results,
\* the record home() keeps is the first occurrence in that concatenation, its
\* topic being the keyword of the earliest interest that returned it, and no
\* other record with that entry_id is kept.
C2_FirstOccurrenceKept ==
    HomeDone =>
        \A n \in DOMAIN last.all_papers :
            LET e == last.all_papers[n].entry_id
                kept == {i \in DOMAIN last.items : last.items[i].entry_id = e}
            IN  /\ Cardinality(kept) = 1
                /\ \A i \in kept :
                    /\ last.items[i] = last.all_papers[Min(Occurrences(e))]
                    /\ last.items[i].topic = last.interests[Min(Returning(e))].keyword

\* an entry_id came first from one interest and later, with another date,
\* from an interest with another keyword
C2_Witness ==
    /\ HomeDone
    /\ Len(last.interests) = 2
    /\ last.interests[1].keyword /= last.interests[2].keyword
    /\ \E i, j \in DOMAIN last.all_papers :
        /\ i < j
        /\ last.all_papers[i].entry_id = last.all_papers[j].entry_id
        /\ last.all_papers[i].topic /= last.all_papers[j].topic
        /\ last.all_papers[i].published_date /= last.all_papers[j].published_date

\* C4: for the sorted sequence of N items and a page number k >= 1,
\* total_pages is ceil(N/10), the page holds min(10, max(0, N - (k-1)*10))
\* items, namely those at positions (k-1)*10 .. k*10 - 1 (counted from 0), and
\* a page beyond total_pages is empty.
C4_Pagination ==
    ((HomeDone \/ NewsDone) /\ last.page >= 1) =>
        LET N == Len(last.items)
            k == last.page
            rest == N - (k - 1) * 10
            size == IF rest <= 0 THEN 0 ELSE IF rest < 10 THEN rest ELSE 10
        IN  /\ last.total_pages * 10 >= N
            /\ (last.total_pages - 1) * 10 < N
            /\ last.total_pages >= 0
            /\ Len(last.page_items) = size
            /\ \A j \in 1..size : last.page_items[j] = last.items[(k - 1) * 10 + j]
            /\ k > last.total_pages => last.page_items = <<>>

\* page 2 of 15 papers holds the last 5, and total_pages is 2
C4_WitnessHome ==
    /\ HomeDone /\ last.page = 2
    /\ Len(last.items) = 15 /\ Len(last.page_items) = 5
    /\ last.total_pages = 2

\* C5: the merged paper sequence of home() and the article sequence of
\* news() are non-increasing in published_date under string comparison.
C5_SortedByDateDesc ==
    (HomeDone \/ NewsDone) =>
        \A i \in 1..(Len(last.items) - 1) :
            ~StrLess(last.items[i].published_date, last.items[i + 1].published_date)

\* news() has put a later feed's article ahead of an earlier feed's
C5_Witness ==
    /\ NewsDone
    /\ Len(last.items) >= 2
    /\ last.items[1].source = Feeds[3]
    /\ \E i \in DOMAIN last.items :
        /\ last.items[i].source = Feeds[1]
        /\ StrLess(last.items[i].published_date, last.items[1].published_date)

\* the results of the interests whose fetch succeeded, in interest order
RECURSIVE SucceededPapers(_)
SucceededPapers(n) ==
    IF n = 0 THEN <<>>
    ELSE SucceededPapers(n - 1) \o
         (IF last.outcomes[n].raises THEN <<>>
          ELSE [i \in DOMAIN last.outcomes[n].results |->
                    PaperInfo(last.outcomes[n].results[i], last.interests[n].keyword)])

\* C8: when the source fails for some interests, home() still completes, its
\* merged result is the dedup and sort of the results of the interests whose
\* fetch succeeded, and each interest is fetched exactly once.
C8_FailedFetchIsEmpty ==
    last.op = "home" =>
        LET ok == SucceededPapers(Len(last.interests)) IN
        /\ last.status = 200
        /\ last.all_papers = ok
        /\ last.items = SortByDateDesc(Dedup(ok, Len(ok)))
        /\ Len(last.calls) = Len(last.interests)
        /\ \A i \in DOMAIN last.interests :
                /\ last.calls[i].keyword = last.interests[i].keyword
                /\ last.calls[i].search_type = last.interests[i].interest_type

\* one interest's fetch failed after the source had yielded a result, the
\* other's succeeded
C8_Witness ==
    /\ HomeDone
    /\ Len(last.interests) = 2
    /\ last.outcomes[1].raises /\ last.outcomes[1].results /= <<>>
    /\ ~last.outcomes[2].raises /\ Len(last.outcomes[2].results) = 2
    /\ Len(last.items) = 2

-----------------------------------------------------------------------------
(* add_interest requests that overlap *)

\* Number of add_interest requests in flight together
MaxRequests == 2

Requests == 1..MaxRequests

\* a request arrives: request.form.get('keyword'), request.form.get('interest_type')
ReceiveAdd(p) ==
    \E form \in AddForms :
        /\ reqs[p].pc = "idle"
        /\ reqs' = [reqs EXCEPT ![p] = [pc |-> "check", form |-> form]]
        /\ UNCHANGED <<interests, bookmarks, last>>

\* `if new_keyword and new_type:` and the query for an existing row, run in
\* the request's own session
CheckExisting(p) ==
    /\ reqs[p].pc = "check"
    /\ LET new_keyword == reqs[p].form.keyword
           new_type == reqs[p].form.interest_type
       IN  IF Truthy(new_keyword) /\ Truthy(new_type)
           THEN LET existing == InterestFilterBy(interests, new_keyword[1], new_type[1])
                IN  reqs' = [reqs EXCEPT ![p].pc =
                                IF existing = {} THEN "insert" ELSE "redirect"]
           ELSE reqs' = [reqs EXCEPT ![p].pc = "redirect"]
    /\ UNCHANGED <<interests, bookmarks, last>>

\* Interest(...), db.session.add, db.session.commit: the insert of this
\* request's row, serialized by the database
InsertCommit(p) ==
    /\ reqs[p].pc = "insert"
    /\ NextRowId(interests) <= MaxId
    /\ interests' = InsertInterest(interests, reqs[p].form.keyword[1],
                                   reqs[p].form.interest_type[1])
    /\ reqs' = [reqs EXCEPT ![p].pc = "redirect"]
    /\ UNCHANGED <<bookmarks, last>>

\* return redirect(url_for('home'))
Redirect(p) ==
    /\ reqs[p].pc = "redirect"
    /\ reqs' = [reqs EXCEPT ![p] = [pc |-> "idle"]]
    /\ UNCHANGED <<interests, bookmarks, last>>

InitConc ==
    /\ interests = {}
    /\ bookmarks = <<>>
    /\ last = NoRequest
    /\ reqs = [p \in Requests |-> [pc |-> "idle"]]

NextConc ==
    \E p \in Requests :
        ReceiveAdd(p) \/ CheckExisting(p) \/ InsertCommit(p) \/ Redirect(p)

\* add_interest requests served by concurrent threads
SpecConc == InitConc /\ [][NextConc]_vars

\* C10: with overlapping add_interest requests, whose existence check and
\* insert are separate steps, no two stored Interests share a
\* (keyword, interest_type) pair.
C10_UniquePairsUnderOverlap ==
    \A r1, r2 \in interests :
        (r1.keyword = r2.keyword /\ r1.interest_type = r2.interest_type)
            => r1.id = r2.id

=============================================================================
